---- MODULE Spec2Model ----
(***************************************************************************)
(* Model of the Mergington High School activities API (src/src/app.py):    *)
(* an in-memory dict `activities` mirrored to a JSON file, mutated by the  *)
(* HTTP handlers create / update / delete / publish / unpublish / signup / *)
(* unregister.                                                             *)
(*                                                                         *)
(* Spec      handles requests one at a time (each handler is one action).  *)
(* SpecConc  runs two handlers at once, one source statement per step, as  *)
(*           the thread pool that serves the `def` handlers does.          *)
(***************************************************************************)
EXTENDS Integers, Sequences, FiniteSets, TLC

VARIABLES
    activities,  \* the module-level dict: a sequence of [k, r] in insertion order
    file,        \* data/activities.json: [text, members], see JsonFile
    req,         \* the request handled last (Spec)
    resp,        \* the response returned for it (Spec)
    th           \* SpecConc: per worker thread, its position, request, locals

vars == <<activities, file, req, resp, th>>

(***************************************************************************)
(* JSON scalars as they arrive in a request body.  A scalar is tagged with *)
(* its JSON type; `s` is its text (for a number, its decimal digits).      *)
(***************************************************************************)
Str(s) == [t |-> "str", s |-> s]
Num(s) == [t |-> "int", s |-> s]
JTrue == [t |-> "bool", s |-> "true"]
JFalse == [t |-> "bool", s |-> "false"]

\* Python None, as stored for an absent poster.
None == "None"

\* Python truthiness: bool(x), `not x`.
Truthy(j) ==
    CASE j.t = "null" -> FALSE
      [] j.t = "bool" -> j.s = "true"
      [] j.t = "int" -> j.s # "0"
      [] j.t = "str" -> j.s # ""

\* The decimal numerals the requests of this model use.
Decimal == ("0" :> 0) @@ ("3" :> 3) @@ ("7" :> 7) @@ ("10" :> 10)

\* Python int(x): the number, or the exception it raises.
PyInt(j) ==
    CASE j.t = "int" -> [ok |-> TRUE, v |-> Decimal[j.s]]
      [] j.t = "bool" -> [ok |-> TRUE, v |-> IF j.s = "true" THEN 1 ELSE 0]
      [] j.t = "str" ->
            IF j.s \in DOMAIN Decimal
            THEN [ok |-> TRUE, v |-> Decimal[j.s]]
            ELSE [ok |-> FALSE, v |-> 0]
      [] j.t = "null" -> [ok |-> FALSE, v |-> 0]

(***************************************************************************)
(* A Python dict with insertion order: a sequence of entries [k, r].       *)
(***************************************************************************)
Keys(d) == {d[i].k : i \in 1..Len(d)}
Has(d, k) == \E i \in 1..Len(d) : d[i].k = k
Idx(d, k) == CHOOSE i \in 1..Len(d) : d[i].k = k
Get(d, k) == d[Idx(d, k)].r
\* d[k] = r: a present key keeps its place, a new one goes last.
Put(d, k, r) ==
    IF Has(d, k)
    THEN [d EXCEPT ![Idx(d, k)] = [k |-> k, r |-> r]]
    ELSE Append(d, [k |-> k, r |-> r])
\* d.pop(k)
Pop(d, k) ==
    LET i == Idx(d, k)
    IN  SubSeq(d, 1, i - 1) \o SubSeq(d, i + 1, Len(d))

\* payload.get(key, default) and details.setdefault(key, default)
GetOr(p, key, default) == IF key \in DOMAIN p THEN p[key] ELSE default
SetField(r, key, v) == (key :> v) @@ r
SetDefault(r, key, v) == IF key \in DOMAIN r THEN r ELSE SetField(r, key, v)

\* Mutant of ListRemove: every occurrence goes, not only the first.
ListRemoveAll(l, x) == SelectSeq(l, LAMBDA y : y # x)

\* `x in list`, list.append(x), list.remove(x) (the first occurrence).
InList(l, x) == \E i \in 1..Len(l) : l[i] = x
FirstIdx(l, x) == CHOOSE i \in 1..Len(l) : l[i] = x /\ \A j \in 1..(i - 1) : l[j] # x
ListRemove(l, x) ==
    LET i == FirstIdx(l, x)
    IN  SubSeq(l, 1, i - 1) \o SubSeq(l, i + 1, Len(l))

(***************************************************************************)
(* Persistence.                                                            *)
(***************************************************************************)
\* json.dump writes a dict key as a string: str as is, int as its digits.
KeyStr(k) == Str(k.s)

\* _save_activities: the members of the JSON object, in dict order.
Dump(d) == [i \in 1..Len(d) |-> [k |-> KeyStr(d[i].k), r |-> d[i].r]]

\* json.load: a repeated member name keeps its first place and last value.
RECURSIVE Parse(_)
Parse(text) ==
    IF text = <<>>
    THEN <<>>
    ELSE LET last == text[Len(text)]
         IN  Put(Parse(SubSeq(text, 1, Len(text) - 1)), last.k, last.r)

\* The defaults _load_activities gives a legacy entry.
FillDefaults(r) ==
    SetDefault(SetDefault(SetDefault(r, "participants", <<>>),
                          "max_participants", 0),
               "draft", FALSE)

\* The file's content: a JSON object with these members, nothing at all
\* (just opened with "w"), or bytes that are no JSON document.
JsonFile(members) == [text |-> "json", members |-> members]
EmptyFile == [text |-> "empty", members |-> <<>>]
GarbledFile == [text |-> "garbled", members |-> <<>>]

\* _load_activities, on the text of a JSON object
Load(text) ==
    LET data == Parse(text)
    IN  [i \in 1..Len(data) |-> [k |-> data[i].k, r |-> FillDefaults(data[i].r)]]

\* _save_activities, run without interruption: open, json.dump, close.
Save(d) == JsonFile(Dump(d))

(***************************************************************************)
(* Request handlers.  Each is the handler's result on the dict `acts`: the *)
(* response (status, detail), the dict as the handler leaves it, and       *)
(* whether it reached _save_activities.                                    *)
(***************************************************************************)
Outcome(status, detail, acts, save) ==
    [status |-> status, detail |-> detail, acts |-> acts, save |-> save]

\* Mutant of GetAllActivities: the admin view hides drafts too.
GetAllPublished(acts) == SelectSeq(acts, LAMBDA e : ~e.r.draft)

\* get_all_activities
GetAllActivities(acts) == acts

\* Mutant of GetActivities: the published_only filter is dropped.
GetActivitiesUnfiltered(acts, published_only) == acts

\* get_activities(published_only)
GetActivities(acts, published_only) ==
    IF ~published_only
    THEN acts
    ELSE SelectSeq(acts, LAMBDA e : ~GetOr(e.r, "draft", FALSE))

\* The record create_activity builds from the payload (max_participants
\* already converted to n).
NewActivity(p, n) ==
    [description |-> GetOr(p, "description", ""),
     schedule |-> GetOr(p, "schedule", ""),
     max_participants |-> n,
     participants |-> GetOr(p, "participants", <<>>),
     poster |-> GetOr(p, "poster", None),
     draft |-> Truthy(GetOr(p, "draft", JTrue))]

\* Mutant of CreateActivity: no "already exists" check, the record is replaced.
CreateActivityOverwrite(acts, p) ==
    LET name == GetOr(p, "name", [t |-> "null", s |-> ""])
        n == PyInt(GetOr(p, "max_participants", Num("0")))
    IN  IF ~Truthy(name)
        THEN Outcome(400, "Missing 'name' field", acts, FALSE)
        ELSE IF ~n.ok
        THEN Outcome(500, "int() raised", acts, FALSE)
        ELSE Outcome(200, "Created activity", Put(acts, name, NewActivity(p, n.v)), TRUE)

\* create_activity(payload)
CreateActivity(acts, p) ==
    LET name == GetOr(p, "name", [t |-> "null", s |-> ""])
        n == PyInt(GetOr(p, "max_participants", Num("0")))
    IN  IF ~Truthy(name)
        THEN Outcome(400, "Missing 'name' field", acts, FALSE)
        ELSE IF Has(acts, name)
        THEN Outcome(400, "Activity already exists", acts, FALSE)
        ELSE IF ~n.ok
        THEN Outcome(500, "int() raised", acts, FALSE)
        ELSE Outcome(200, "Created activity", Put(acts, name, NewActivity(p, n.v)), TRUE)

\* Mutant of CopyField: a key the payload lacks is reset instead of kept.
CopyFieldOrReset(r, p, key) == SetField(r, key, GetOr(p, key, ""))

\* One turn of update_activity's loop over description, schedule, poster.
CopyField(r, p, key) == IF key \in DOMAIN p THEN SetField(r, key, p[key]) ELSE r

\* update_activity(activity_name, payload): the loop assigns description and
\* schedule before int() can raise on max_participants.
UpdateActivity(acts, name, p) ==
    IF ~Has(acts, Str(name))
    THEN Outcome(404, "Activity not found", acts, FALSE)
    ELSE LET r0 == Get(acts, Str(name))
             r2 == CopyField(CopyField(r0, p, "description"), p, "schedule")
             n == PyInt(GetOr(p, "max_participants", Num("0")))
             r3 == IF "max_participants" \in DOMAIN p
                   THEN SetField(r2, "max_participants", n.v)
                   ELSE r2
             r4 == CopyField(r3, p, "poster")
             r5 == IF "draft" \in DOMAIN p
                   THEN SetField(r4, "draft", Truthy(p.draft))
                   ELSE r4
         IN  IF "max_participants" \in DOMAIN p /\ ~n.ok
             THEN Outcome(500, "int() raised", Put(acts, Str(name), r2), FALSE)
             ELSE Outcome(200, "Updated activity", Put(acts, Str(name), r5), TRUE)

\* delete_activity(activity_name)
DeleteActivity(acts, name) ==
    IF ~Has(acts, Str(name))
    THEN Outcome(404, "Activity not found", acts, FALSE)
    ELSE Outcome(200, "Deleted activity", Pop(acts, Str(name)), TRUE)

\* publish_activity / unpublish_activity: activities[name]["draft"] = draft
SetDraft(acts, name, draft) ==
    Put(acts, Str(name), SetField(Get(acts, Str(name)), "draft", draft))

PublishActivity(acts, name) ==
    IF ~Has(acts, Str(name))
    THEN Outcome(404, "Activity not found", acts, FALSE)
    ELSE Outcome(200, "Published activity", SetDraft(acts, name, FALSE), TRUE)

UnpublishActivity(acts, name) ==
    IF ~Has(acts, Str(name))
    THEN Outcome(404, "Activity not found", acts, FALSE)
    ELSE Outcome(200, "Unpublished activity", SetDraft(acts, name, TRUE), TRUE)

\* activity["participants"] of the named activity
Participants(acts, name) == Get(acts, Str(name)).participants

\* Mutant of AppendParticipant: the append re-checks membership first.
AppendIfAbsent(acts, name, email) ==
    IF InList(Get(acts, Str(name)).participants, email)
    THEN acts
    ELSE Put(acts, Str(name),
             SetField(Get(acts, Str(name)), "participants",
                      Append(Get(acts, Str(name)).participants, email)))

\* activity["participants"].append(email)
AppendParticipant(acts, name, email) ==
    Put(acts, Str(name),
        SetField(Get(acts, Str(name)), "participants",
                 Append(Participants(acts, name), email)))

\* activity["participants"].remove(email)
RemoveParticipant(acts, name, email) ==
    Put(acts, Str(name),
        SetField(Get(acts, Str(name)), "participants",
                 ListRemove(Participants(acts, name), email)))

\* Mutant of SignupCheck: only the activity's existence is checked.
SignupCheckExistsOnly(acts, name, email) ==
    IF ~Has(acts, Str(name)) THEN "Activity not found" ELSE ""

\* The two checks of signup_for_activity: "" when both pass.
SignupCheck(acts, name, email) ==
    IF ~Has(acts, Str(name)) THEN "Activity not found"
    ELSE IF InList(Participants(acts, name), email) THEN "Student is already signed up"
    ELSE ""

\* signup_for_activity(activity_name, email)
SignupForActivity(acts, name, email) ==
    LET err == SignupCheck(acts, name, email)
    IN  IF err = "Activity not found" THEN Outcome(404, err, acts, FALSE)
        ELSE IF err # "" THEN Outcome(400, err, acts, FALSE)
        ELSE Outcome(200, "Signed up", AppendParticipant(acts, name, email), TRUE)

\* The two checks of unregister_from_activity: "" when both pass.
UnregisterCheck(acts, name, email) ==
    IF ~Has(acts, Str(name)) THEN "Activity not found"
    ELSE IF ~InList(Participants(acts, name), email)
    THEN "Student is not signed up for this activity"
    ELSE ""

\* unregister_from_activity(activity_name, email)
UnregisterFromActivity(acts, name, email) ==
    LET err == UnregisterCheck(acts, name, email)
    IN  IF err = "Activity not found" THEN Outcome(404, err, acts, FALSE)
        ELSE IF err # "" THEN Outcome(400, err, acts, FALSE)
        ELSE Outcome(200, "Unregistered", RemoveParticipant(acts, name, email), TRUE)

(***************************************************************************)
(* The requests of the model.                                              *)
(***************************************************************************)
Emails == {"amy", "bob"}
\* {activity_name} in a path is always a string.
PathNames == {"7"}
\* "name" in a create body is any JSON value: a string, a number, "".
BodyNames == {Str("7"), Num("7"), Str("")}

\* Create bodies without their name: defaults only; every field given
\* (max_participants as a numeric string); a participants list that repeats
\* an email; a max_participants int() rejects.
CreateBodies ==
    { [x \in {} |-> 0],
      [description |-> "d", schedule |-> "s", max_participants |-> Str("10"),
       poster |-> "p.png", draft |-> JFalse],
      [participants |-> <<"amy", "bob", "amy">>],
      [description |-> "d", max_participants |-> Str("ten")] }
CreatePayloads ==
    CreateBodies \cup {SetField(b, "name", n) : b \in CreateBodies, n \in BodyNames}

\* Update bodies: two text fields; every field with a max_participants int()
\* rejects; a number and a truthy string for draft; keys update ignores
\* (participants, name) beside poster and draft; the empty object.
UpdatePayloads ==
    { [description |-> "d", schedule |-> "s"],
      [description |-> "d", schedule |-> "s", max_participants |-> Str("ten"),
       poster |-> "p.png", draft |-> JFalse],
      [max_participants |-> Num("10"), draft |-> Str("no")],
      [poster |-> "p.png", draft |-> JFalse, participants |-> <<"bob">>,
       name |-> Str("art")],
      [x \in {} |-> 0] }

Request(op, name, email, payload) ==
    [op |-> op, name |-> name, email |-> email, payload |-> payload]
NoPayload == [x \in {} |-> 0]

\* The file before the first start: absent (created as {}), or a legacy
\* document whose entry lacks participants, max_participants and draft.
InitialFiles ==
    { <<>>,
      <<[k |-> Str("7"), r |-> [description |-> "d", schedule |-> "s"]]>> }

Threads == {1, 2}
Idle == [pc |-> "idle", op |-> "", name |-> "", email |-> "", buf |-> <<>>,
         status |-> 0]

\* Module import: line 55 loads the file.
Init ==
    /\ file \in {JsonFile(m) : m \in InitialFiles}
    /\ activities = Load(file.members)
    /\ req = Request("", "", "", NoPayload)
    /\ resp = [status |-> 0, detail |-> ""]
    /\ th = [t \in Threads |-> Idle]

(***************************************************************************)
(* Spec: requests handled one at a time.                                   *)
(***************************************************************************)
\* A handler runs to its return or raise; _save_activities rewrites the file.
Handle(r, out) ==
    /\ activities' = out.acts
    /\ file' = IF out.save THEN Save(out.acts) ELSE file
    /\ req' = r
    /\ resp' = [status |-> out.status, detail |-> out.detail]
    /\ UNCHANGED th

Create ==
    \E p \in CreatePayloads :
        Handle(Request("create", "", "", p), CreateActivity(activities, p))
Update ==
    \E n \in PathNames, p \in UpdatePayloads :
        Handle(Request("update", n, "", p), UpdateActivity(activities, n, p))
Delete ==
    \E n \in PathNames :
        Handle(Request("delete", n, "", NoPayload), DeleteActivity(activities, n))
Publish ==
    \E n \in PathNames :
        Handle(Request("publish", n, "", NoPayload), PublishActivity(activities, n))
Unpublish ==
    \E n \in PathNames :
        Handle(Request("unpublish", n, "", NoPayload), UnpublishActivity(activities, n))
Signup ==
    \E n \in PathNames, e \in Emails :
        Handle(Request("signup", n, e, NoPayload), SignupForActivity(activities, n, e))
Unregister ==
    \E n \in PathNames, e \in Emails :
        Handle(Request("unregister", n, e, NoPayload),
               UnregisterFromActivity(activities, n, e))

Next == Create \/ Update \/ Delete \/ Publish \/ Unpublish \/ Signup \/ Unregister

Spec == Init /\ [][Next]_vars

(***************************************************************************)
(* SpecConc: two worker threads run signup and unregister handlers at the  *)
(* same time on the shared dict and file, one source statement per step;   *)
(* nothing in the source takes a lock.                                     *)
(***************************************************************************)
\* Begin admits a request only while the list is shorter than this.
MaxParticipants == 3

\* A store the program saved earlier: one published activity, nobody in it.
ConcMembers == <<[k |-> Str("7"), r |-> NewActivity([draft |-> JFalse], 0)]>>

InitConc ==
    /\ file = JsonFile(ConcMembers)
    /\ activities = Load(file.members)
    /\ req = Request("", "", "", NoPayload)
    /\ resp = [status |-> 0, detail |-> ""]
    /\ th = [t \in Threads |-> Idle]

Respond(t, status) == [th EXCEPT ![t].pc = "idle", ![t].status = status]
Goto(t, pc) == [th EXCEPT ![t].pc = pc]

\* A worker thread takes a request.
Begin(t) ==
    /\ th[t].pc = "idle"
    /\ \E op \in {"signup", "unregister"}, n \in PathNames, e \in Emails :
          /\ Has(activities, Str(n)) => Len(Participants(activities, n)) < MaxParticipants
          /\ th' = [th EXCEPT ![t] = [pc |-> "check", op |-> op, name |-> n,
                                       email |-> e, buf |-> <<>>, status |-> 0]]
    /\ UNCHANGED <<activities, file, req, resp>>

\* Lines 142-153 / 165-176: the existence and membership checks.
Check(t) ==
    /\ th[t].pc = "check"
    /\ LET err == IF th[t].op = "signup"
                  THEN SignupCheck(activities, th[t].name, th[t].email)
                  ELSE UnregisterCheck(activities, th[t].name, th[t].email)
       IN  th' = IF err = "Activity not found" THEN Respond(t, 404)
                 ELSE IF err # "" THEN Respond(t, 400)
                 ELSE Goto(t, "mutate")
    /\ UNCHANGED <<activities, file, req, resp>>

\* Line 156: append.
MutateSignup(t) ==
    /\ th[t].pc = "mutate" /\ th[t].op = "signup"
    /\ activities' = AppendParticipant(activities, th[t].name, th[t].email)
    /\ th' = Goto(t, "open")
    /\ UNCHANGED <<file, req, resp>>

\* Line 179: remove, which raises ValueError when the email is gone.
MutateUnregister(t) ==
    /\ th[t].pc = "mutate" /\ th[t].op = "unregister"
    /\ IF InList(Participants(activities, th[t].name), th[t].email)
       THEN /\ activities' = RemoveParticipant(activities, th[t].name, th[t].email)
            /\ th' = Goto(t, "open")
       ELSE /\ activities' = activities
            /\ th' = Respond(t, 500)
    /\ UNCHANGED <<file, req, resp>>

\* Line 50: open(DATA_FILE, "w") truncates the file.
SaveOpen(t) ==
    /\ th[t].pc = "open"
    /\ file' = EmptyFile
    /\ th' = Goto(t, "dump")
    /\ UNCHANGED <<activities, req, resp>>

\* Line 51: json.dump serialises the dict as it is now into the writer's buffer.
SaveDump(t) ==
    /\ th[t].pc = "dump"
    /\ th' = [th EXCEPT ![t].pc = "close", ![t].buf = Dump(activities)]
    /\ UNCHANGED <<activities, file, req, resp>>

\* The length of the text json.dump writes, as far as two texts of this
\* specification differ: they differ in their participants only, and all
\* emails have one length, so the text grows with the number of participants.
RECURSIVE TextLen(_)
TextLen(members) ==
    IF members = <<>>
    THEN 0
    ELSE Len(members[1].r.participants) + TextLen(Tail(members))

\* What the file holds once a writer's buffer is flushed at offset 0: the
\* buffer, unless another writer's longer text is there, whose tail then
\* follows the buffer.  (With two writers a garbled file is truncated by
\* the next open before anything is flushed onto it.)
Flushed(old, buf) ==
    IF old.text = "json" /\ TextLen(old.members) > TextLen(buf)
    THEN GarbledFile
    ELSE JsonFile(buf)

\* Leaving the with-block flushes and closes; the handler returns.
SaveClose(t) ==
    /\ th[t].pc = "close"
    /\ file' = Flushed(file, th[t].buf)
    /\ th' = Respond(t, 200)
    /\ UNCHANGED <<activities, req, resp>>

NextConc ==
    \E t \in Threads :
        \/ Begin(t)
        \/ Check(t)
        \/ MutateSignup(t)
        \/ MutateUnregister(t)
        \/ SaveOpen(t)
        \/ SaveDump(t)
        \/ SaveClose(t)

SpecConc == InitConc /\ [][NextConc]_vars

(***************************************************************************)
(* Properties.                                                             *)
(***************************************************************************)
\* dict equality: the same keys with the same values, in any order.
SameMap(a, b) ==
    /\ Keys(a) = Keys(b)
    /\ \A k \in Keys(a) : Get(a, k) = Get(b, k)
Count(l, x) == Cardinality({i \in 1..Len(l) : l[i] = x})
NoDup(l) == \A i, j \in 1..Len(l) : l[i] = l[j] => i = j
AllNoDup(acts) == \A i \in 1..Len(acts) : NoDup(acts[i].r.participants)
Mutating == {"create", "update", "delete", "publish", "unpublish", "signup", "unregister"}
\* Every entry but the one under key k is the same in a and b, place included.
OthersSame(a, b, k) ==
    /\ Len(a) = Len(b)
    /\ \A i \in 1..Len(a) : a[i].k = b[i].k /\ (a[i].k # k => a[i] = b[i])

\* C1: every request that ends in an error leaves the in-memory map and the
\* persisted file exactly as they were before the request.
C1_FailedRequestLeavesStateUnchanged ==
    [][resp'.status # 200 => (activities' = activities /\ file' = file)]_vars

\* C2: a create whose name is already a key of the store answers 400
\* "Activity already exists", and neither the map nor the file changes.
C2_DuplicateCreateRejected ==
    [][(/\ req'.op = "create"
        /\ "name" \in DOMAIN req'.payload
        /\ Has(activities, req'.payload.name))
       => (/\ resp' = [status |-> 400, detail |-> "Activity already exists"]
           /\ activities' = activities
           /\ file' = file)]_vars

\* A create of a present name was just refused; the body's max_participants
\* would not even convert, the name check comes first.
C2_Witness ==
    /\ req.op = "create"
    /\ resp.detail = "Activity already exists"
    /\ "max_participants" \in DOMAIN req.payload
    /\ ~PyInt(req.payload.max_participants).ok
    /\ file = Save(activities)

C4_PublishedListing ==
    /\ \A i \in 1..Len(activities) : "draft" \in DOMAIN activities[i].r
    /\ GetActivities(activities, TRUE)
         = SelectSeq(activities, LAMBDA e : e.r.draft = FALSE)
    /\ \A i \in 1..Len(GetActivities(activities, TRUE)) :
         GetActivities(activities, TRUE)[i].r.draft # TRUE
    /\ GetActivities(activities, FALSE) = activities
    /\ GetAllActivities(activities) = activities

\* The store holds a draft and a published activity.
C4_Witness ==
    /\ \E i \in 1..Len(activities) : activities[i].r.draft
    /\ \E i \in 1..Len(activities) : ~activities[i].r.draft
    /\ Len(GetActivities(activities, TRUE)) < Len(GetAllActivities(activities))

\* C5: a signup of an email the existing activity does not list succeeds and
\* appends the email at the end; the same signup again right after answers
\* 400 and leaves participants as they were, the email in it exactly once.
C5_SignupTwice ==
    [][/\ (/\ req'.op = "signup"
           /\ Has(activities, Str(req'.name))
           /\ ~InList(Participants(activities, req'.name), req'.email))
          => (/\ resp'.status = 200
              /\ Participants(activities', req'.name)
                   = Append(Participants(activities, req'.name), req'.email))
       /\ (req.op = "signup" /\ resp.status = 200 /\ req' = req)
          => (/\ resp'.status = 400
              /\ activities' = activities
              /\ file' = file
              /\ Count(Participants(activities', req'.name), req'.email) = 1)]_vars

\* A signup was just refused as a duplicate; the email is listed once, after
\* another participant.
C5_Witness ==
    /\ req.op = "signup"
    /\ resp = [status |-> 400, detail |-> "Student is already signed up"]
    /\ Count(Participants(activities, req.name), req.email) = 1
    /\ Len(Participants(activities, req.name)) = 2

\* C6: unregister removes exactly one occurrence of the email from the
\* activity's participants, keeps the order of the rest and touches no other
\* activity; if the email is not listed it answers 400 and changes nothing.
C6_UnregisterRemovesOne ==
    [][(req'.op = "unregister" /\ Has(activities, Str(req'.name)))
       => LET old == Participants(activities, req'.name)
              e == req'.email
          IN  IF InList(old, e)
              THEN /\ resp'.status = 200
                   /\ OthersSame(activities, activities', Str(req'.name))
                   /\ \E i \in 1..Len(old) :
                        /\ old[i] = e
                        /\ Participants(activities', req'.name)
                             = SubSeq(old, 1, i - 1) \o SubSeq(old, i + 1, Len(old))
                   /\ \A f \in DOMAIN Get(activities, Str(req'.name)) \ {"participants"} :
                        Get(activities', Str(req'.name))[f]
                          = Get(activities, Str(req'.name))[f]
              ELSE /\ resp'.status = 400
                   /\ activities' = activities
                   /\ file' = file]_vars

\* An unregister just succeeded on a list that held the email twice: one
\* occurrence is left, and another activity still lists the email.
C6_Witness ==
    /\ req.op = "unregister"
    /\ resp.status = 200
    /\ Count(Participants(activities, req.name), req.email) = 1
    /\ Len(Participants(activities, req.name)) = 2
    /\ \E i \in 1..Len(activities) :
         /\ activities[i].k # Str(req.name)
         /\ InList(activities[i].r.participants, req.email)

\* C7: after a mutating request that succeeded, the file holds the in-memory
\* map: loading it again gives a mapping equal to the one in memory.
C7_FileMirrorsMemory ==
    (req.op \in Mutating /\ resp.status = 200)
    => (file.text = "json" /\ SameMap(Load(file.members), activities))

\* C8 as stated: no participants list holds an email twice.
C8_NoDuplicateParticipants == AllNoDup(activities)

\* C8 amended: a request introduces a repeated email only if it is a create
\* whose payload carries a participants list that repeats one (create stores
\* the list as given); every other request keeps all lists duplicate-free.
C8_OnlyCreateBringsDuplicates ==
    [][(/\ AllNoDup(activities)
        /\ ~(/\ req'.op = "create"
             /\ "participants" \in DOMAIN req'.payload
             /\ ~NoDup(req'.payload.participants)))
       => AllNoDup(activities')]_vars

\* A second email was just signed up; the list holds two different emails.
C8_Witness ==
    /\ req.op = "signup"
    /\ resp.status = 200
    /\ Len(Participants(activities, req.name)) = 2
    /\ AllNoDup(activities)

\* C9: a successful update overwrites only the fields the payload supplies
\* among description, schedule, max_participants, poster and draft; every
\* other field, the participants, the name and every other activity stay.
C9_UpdateFrame ==
    [][(req'.op = "update" /\ resp'.status = 200)
       => LET k == Str(req'.name)
              p == req'.payload
              old == Get(activities, k)
              new == Get(activities', k)
          IN  /\ OthersSame(activities, activities', k)
              /\ new.participants = old.participants
              /\ DOMAIN new = DOMAIN old \cup
                   (DOMAIN p \cap {"description", "schedule", "max_participants",
                                   "poster", "draft"})
              /\ \A f \in {"description", "schedule", "poster"} \cap DOMAIN new :
                   new[f] = IF f \in DOMAIN p THEN p[f] ELSE old[f]
              /\ new.max_participants
                   = IF "max_participants" \in DOMAIN p
                     THEN PyInt(p.max_participants).v
                     ELSE old.max_participants
              /\ new.draft = IF "draft" \in DOMAIN p THEN Truthy(p.draft) ELSE old.draft]_vars

\* An update carrying participants and name beside poster and draft just
\* succeeded on an activity with other participants and a description, next
\* to a second activity.
C9_Witness ==
    /\ req.op = "update"
    /\ resp.status = 200
    /\ "participants" \in DOMAIN req.payload
    /\ Participants(activities, req.name) # req.payload.participants
    /\ Participants(activities, req.name) # <<>>
    /\ Get(activities, Str(req.name)).description = "d"
    /\ Len(activities) = 2

\* C10: nothing serialises two handlers.  When a worker that passed signup's
\* duplicate check reaches its append after the other worker added the same
\* email, it appends all the same and the email is listed twice.
C10_RacingSignupDuplicates ==
    [][\A t \in Threads :
         (/\ th[t].pc = "mutate"
          /\ th[t].op = "signup"
          /\ th'[t].pc = "open"
          /\ InList(Participants(activities, th[t].name), th[t].email))
         => Count(Participants(activities', th[t].name), th[t].email)
              = Count(Participants(activities, th[t].name), th[t].email) + 1]_vars

\* Both workers have answered 200 to a signup of the same email for the same
\* activity, the email is listed twice, and the file is not the map in memory.
C10_Witness ==
    /\ \A t \in Threads :
         th[t].pc = "idle" /\ th[t].op = "signup" /\ th[t].status = 200
    /\ th[1].name = th[2].name /\ th[1].email = th[2].email
    /\ Count(Participants(activities, th[1].name), th[1].email) = 2
    /\ file # Save(activities)

====
